---- MODULE Spec2Model ----
(***************************************************************************)
(* Retrieval engine of the manual Q&A backend: VectorStore.build,          *)
(* VectorStore.search / search_advanced (backend/app/retriever.py), the     *)
(* background Indexer (backend/app/indexer.py), the /ingest and /search     *)
(* handlers (backend/app/main.py), and build_sections / chunk_sections      *)
(* (backend/app/ingest.py).                                                 *)
(*                                                                         *)
(* Numbers.  Vectors have two components.  A unit vector is held in fixed   *)
(* point with scale Unit (so [1,0] is <<10,0>> and [0.7,0.7] is <<7,7>>),  *)
(* an inner product of two unit vectors with scale Unit*Unit (1.0 is 100),  *)
(* and mmr_lambda in tenths (0.5 is 5).  Rows are numbered from 1.          *)
(***************************************************************************)
EXTENDS Integers, Sequences, FiniteSets, TLC

\* ---------------------------------------------------------------- bounds
MaxChunks == 3
MaxTopK == 2

\* ------------------------------------------------------- fixed point scale
Unit == 10
LambdaOne == 10

\* ------------------------------------------------------------ small helpers
Min(a, b) == IF a <= b THEN a ELSE b
Max(a, b) == IF a >= b THEN a ELSE b

None == "none"

RemoveAt(s, pos) == [j \in 1..(Len(s) - 1) |-> IF j < pos THEN s[j] ELSE s[j + 1]]

Range(s) == {s[j] : j \in 1..Len(s)}

\* ------------------------------------------------- the embedding provider
\* SentenceTransformer.encode: a deterministic map from a text to a raw
\* (not normalised) vector.
Texts == {"a", "b", "c"}

ModelEncodeOne(t) ==
    CASE t = "a" -> <<5, 0>>
      [] t = "b" -> <<0, 20>>
      [] t = "c" -> <<7, 7>>
      [] OTHER -> <<0, 0>>

ModelEncode(texts) == [j \in 1..Len(texts) |-> ModelEncodeOne(texts[j])]

Dot(u, v) == u[1] * v[1] + u[2] * v[2]

ISqrt(n) == CHOOSE r \in 0..n : r * r <= n /\ (r + 1) * (r + 1) > n

\* np.linalg.norm of one row (raw scale)
Norm(v) == ISqrt(Dot(v, v))

\* one row of _normalize: v / (norm + 1e-10); the zero vector stays zero
NormalizeRow(v) ==
    IF Norm(v) = 0 THEN <<0, 0>>
    ELSE <<(v[1] * Unit) \div Norm(v), (v[2] * Unit) \div Norm(v)>>

Normalize(X) == [j \in 1..Len(X) |-> NormalizeRow(X[j])]

\* _encode_query: encode, then normalise
EncodeQuery(texts) == Normalize(ModelEncode(texts))

\* mean(axis=0) of the rows of X
MeanRows(X) ==
    <<(X[1][1] + X[2][1]) \div 2, (X[1][2] + X[2][2]) \div 2>>

\* ------------------------------------------------------------ the index
\* faiss.IndexFlatIP.search: the k rows of largest inner product with q, in
\* descending order of score, the lower row first among equal scores.
Better(index, q, i, j) ==
    \/ Dot(index[i], q) > Dot(index[j], q)
    \/ Dot(index[i], q) = Dot(index[j], q) /\ i <= j

RECURSIVE TopRows(_, _, _, _)
TopRows(index, q, rows, k) ==
    IF k = 0 \/ rows = {} THEN <<>>
    ELSE LET best == CHOOSE i \in rows : \A j \in rows : Better(index, q, i, j)
         IN  <<<<best, Dot(index[best], q)>>>> \o TopRows(index, q, rows \ {best}, k - 1)

IndexSearch(index, q, k) == TopRows(index, q, 1..Len(index), k)

\* how many results each operation asks the chunk index for
SearchK(top_k, mmr_candidates, ntotal) ==
    Min(Max(top_k * 4, mmr_candidates), ntotal)

SearchAdvancedK(top_k, mmr_candidates, ntotal) ==
    Min(Max(top_k * 8, mmr_candidates * 2), ntotal)

\* candidates = [(int(i), float(s)) for i, s in zip(idxs, scores) if i != -1]
NotFound == -1

Candidates(hits) == SelectSeq(hits, LAMBDA h : h[1] # NotFound)

\* --------------------------------------------------------- MMR selection
\* (mutant) the last position that holds the maximum
ArgMaxLast(xs) ==
    CHOOSE p \in 1..Len(xs) :
        /\ \A r \in 1..Len(xs) : xs[r] <= xs[p]
        /\ \A r \in (p + 1)..Len(xs) : xs[r] < xs[p]

\* np.argmax: the first position that holds the maximum
ArgMax(xs) ==
    CHOOSE p \in 1..Len(xs) :
        /\ \A r \in 1..Len(xs) : xs[r] <= xs[p]
        /\ \A r \in 1..(p - 1) : xs[r] < xs[p]

\* the state of the loop: selected, selected_scores and the three parallel
\* lists candidates, cand_idxs, cand_vecs
MMRStart(candidates, store) ==
    [selected |-> <<>>,
     selected_scores |-> <<>>,
     candidates |-> candidates,
     cand_idxs |-> [j \in 1..Len(candidates) |-> candidates[j][1]],
     cand_vecs |-> Normalize(ModelEncode(
                       [j \in 1..Len(candidates) |-> store[candidates[j][1]].text]))]

\* (mutant) the loop runs for as long as candidates remain
LoopCondUntilEmpty(st, top_k) == st.cand_idxs # <<>>

\* while len(selected) < min(top_k, len(candidates)) and cand_idxs
LoopCond(st, top_k) ==
    /\ Len(st.selected) < Min(top_k, Len(st.candidates))
    /\ st.cand_idxs # <<>>

\* cand_vecs[[cand_idxs.index(si) for si in selected if si in cand_idxs]]
FirstIndexOf(xs, x) == CHOOSE p \in 1..Len(xs) : xs[p] = x /\ \A r \in 1..(p - 1) : xs[r] # x

SelectedVecs(st) ==
    LET kept == SelectSeq(st.selected, LAMBDA si : si \in Range(st.cand_idxs))
    IN  [j \in 1..Len(kept) |-> st.cand_vecs[FirstIndexOf(st.cand_idxs, kept[j])]]

MaxOver(S) == CHOOSE m \in S : \A x \in S : x <= m

\* diversity: zeros when selected_vecs is empty, else the row maximum of
\* cand_vecs @ selected_vecs.T
Diversity(st) ==
    LET sv == SelectedVecs(st)
    IN  [p \in 1..Len(st.cand_vecs) |->
            IF sv = <<>> THEN 0
            ELSE MaxOver({Dot(st.cand_vecs[p], sv[r]) : r \in 1..Len(sv)})]

\* (mutant) the relevance term taken as a distance: 1 - sim_to_query
MMRScoresDistance(st, q_vec, mmr_lambda) ==
    [p \in 1..Len(st.cand_vecs) |->
        mmr_lambda * (Unit * Unit - Dot(st.cand_vecs[p], q_vec))
          + (LambdaOne - mmr_lambda) * (Unit * Unit)]

\* mmr = mmr_lambda * sim_to_query + (1 - mmr_lambda) * (1 - diversity)
MMRScores(st, q_vec, mmr_lambda) ==
    LET diversity == Diversity(st)
    IN  [p \in 1..Len(st.cand_vecs) |->
            mmr_lambda * Dot(st.cand_vecs[p], q_vec)
              + (LambdaOne - mmr_lambda) * (Unit * Unit - diversity[p])]

\* (mutant) the first pick taken to be the first candidate listed
ChosenPosTopHit(st, q_vec, mmr_lambda) ==
    IF st.selected = <<>> THEN 1
    ELSE ArgMax([p \in 1..Len(st.cand_vecs) |->
                    mmr_lambda * Dot(st.cand_vecs[p], q_vec)
                      + (LambdaOne - mmr_lambda) * (Unit * Unit)])

\* the position removed from the three lists in this iteration
ChosenPos(st, q_vec, mmr_lambda) ==
    IF st.selected = <<>>
    THEN ArgMax([j \in 1..Len(st.candidates) |-> st.candidates[j][2]])
    ELSE ArgMax(MMRScores(st, q_vec, mmr_lambda))

\* the store row appended to selected in this iteration
ChosenGlobalIdx(st, pos) ==
    IF st.selected = <<>> THEN st.candidates[pos][1] ELSE st.cand_idxs[pos]

\* (mutant) the chosen candidate is removed from cand_idxs and cand_vecs
\* but left in candidates
MMRStepKeepsCandidate(st, q_vec, mmr_lambda) ==
    LET pos == ChosenPos(st, q_vec, mmr_lambda)
    IN  [selected |-> Append(st.selected, ChosenGlobalIdx(st, pos)),
         selected_scores |-> Append(st.selected_scores, st.candidates[pos][2]),
         candidates |-> st.candidates,
         cand_idxs |-> RemoveAt(st.cand_idxs, pos),
         cand_vecs |-> RemoveAt(st.cand_vecs, pos)]

\* one iteration: append the choice, delete its position from the lists
MMRStep(st, q_vec, mmr_lambda) ==
    LET pos == ChosenPos(st, q_vec, mmr_lambda)
    IN  [selected |-> Append(st.selected, ChosenGlobalIdx(st, pos)),
         selected_scores |-> Append(st.selected_scores, st.candidates[pos][2]),
         candidates |-> RemoveAt(st.candidates, pos),
         cand_idxs |-> RemoveAt(st.cand_idxs, pos),
         cand_vecs |-> RemoveAt(st.cand_vecs, pos)]

RECURSIVE MMRLoop(_, _, _, _)
MMRLoop(st, q_vec, top_k, mmr_lambda) ==
    IF LoopCond(st, top_k)
    THEN MMRLoop(MMRStep(st, q_vec, mmr_lambda), q_vec, top_k, mmr_lambda)
    ELSE st

\* ------------------------------------------------------- persisted files
\* A file is Absent or holds rows; partial is TRUE from the moment a writer
\* has opened (truncated) it until the writer has written its content.
IndexPath == "index.faiss"
StorePath == "store.jsonl"
SIndexPath == "index_sections.faiss"
SStorePath == "store_sections.jsonl"
MetaPath == "meta.json"
ChunksPath == "chunks.jsonl"
SectionsPath == "sections.jsonl"

Artifacts == {IndexPath, StorePath, SIndexPath, SStorePath, MetaPath}
FileNames == Artifacts \cup {ChunksPath, SectionsPath}

Absent == [exists |-> FALSE, partial |-> FALSE, rows |-> <<>>]
Written(rows) == [exists |-> TRUE, partial |-> FALSE, rows |-> rows]
Truncated == [exists |-> TRUE, partial |-> TRUE, rows |-> <<>>]

\* an index handle of a VectorStore instance: None, or the rows read
NoHandle == [loaded |-> FALSE, rows |-> <<>>]
Handle(rows) == [loaded |-> TRUE, rows |-> rows]

IsFile(fs, name) == fs[name].exists

\* chunk records as chunk_sections emits them: a fresh id per chunk
ChunkKinds == Texts \X {"s1", "s2"}

MakeChunks(kinds) ==
    [j \in 1..Len(kinds) |-> [id |-> j, text |-> kinds[j][1], section_id |-> kinds[j][2]]]

\* section records as ingest_pdf persists them
SectionRecords == <<[id |-> "s1", text |-> "a"], [id |-> "s2", text |-> "b"]>>

RowTexts(records) == [j \in 1..Len(records) |-> records[j].text]

\* the rows build adds to a fresh IndexFlatIP for a list of records
BuildRows(records) == Normalize(ModelEncode(RowTexts(records)))

\* (mutant) the store written in another order than the rows were added
StoreLinesReversed(records) ==
    [j \in 1..Len(records) |-> records[Len(records) + 1 - j]]

\* the lines build writes to a store file for a list of records
StoreLines(records) == records

\* ------------------------------------------------------- search, by phase
\* (mutant) _ensure_loaded reading the section index before it looks for
\* the chunk index
EnsureLoadedSectionsFirst(index, s_index, fs) ==
    LET sx == IF ~s_index.loaded /\ IsFile(fs, SIndexPath) /\ ~fs[SIndexPath].partial
              THEN Handle(fs[SIndexPath].rows) ELSE s_index
    IN  IF ~index.loaded /\ ~IsFile(fs, IndexPath)
        THEN [index |-> index, s_index |-> sx, error |-> "FileNotFoundError"]
        ELSE [index |-> IF index.loaded THEN index ELSE Handle(fs[IndexPath].rows),
              s_index |-> sx, error |-> None]

\* _ensure_loaded on a VectorStore whose handles are index and s_index
EnsureLoaded(index, s_index, fs) ==
    IF ~index.loaded /\ ~IsFile(fs, IndexPath)
    THEN [index |-> index, s_index |-> s_index, error |-> "FileNotFoundError"]
    ELSE IF ~index.loaded /\ fs[IndexPath].partial
    THEN [index |-> index, s_index |-> s_index, error |-> "ReadError"]
    ELSE LET ix == IF index.loaded THEN index ELSE Handle(fs[IndexPath].rows)
         IN  IF ~s_index.loaded /\ IsFile(fs, SIndexPath)
             THEN IF fs[SIndexPath].partial
                  THEN [index |-> ix, s_index |-> s_index, error |-> "ReadError"]
                  ELSE [index |-> ix, s_index |-> Handle(fs[SIndexPath].rows), error |-> None]
             ELSE [index |-> ix, s_index |-> s_index, error |-> None]

\* the calls of faiss.read_index(self.index_path) that _ensure_loaded makes
\* and that return an index
IndexFileReads(index, fs) ==
    IF ~index.loaded /\ IsFile(fs, IndexPath) /\ ~fs[IndexPath].partial THEN 1 ELSE 0

\* the query vector handed to the index
QueryVector(req) ==
    IF req.kind = "search" THEN Normalize(ModelEncode(<<req.query>>))[1]
    ELSE IF req.hyde # None THEN MeanRows(EncodeQuery(<<req.query, req.hyde>>))
    ELSE EncodeQuery(<<req.query>>)[1]

RequestK(req, ntotal) ==
    IF req.kind = "search" THEN SearchK(req.top_k, req.mmr_candidates, ntotal)
    ELSE SearchAdvancedK(req.top_k, req.mmr_candidates, ntotal)

\* (mutant) the section filter built whether or not hierarchical mode is on
AllowedSectionsAnyMode(req, s_index, sstore, q_vec) ==
    IF req.kind = "search" \/ ~s_index.loaded \/ ~sstore.exists
    THEN {}
    ELSE LET hits == IndexSearch(s_index.rows, q_vec,
                                 Min(req.section_top_k, Len(s_index.rows)))
             ok == SelectSeq(hits, LAMBDA h : h[1] # NotFound /\ h[1] <= Len(sstore.rows))
         IN  {sstore.rows[ok[j][1]].id : j \in 1..Len(ok)}

\* the ids of the top sections, or {} where the code leaves allowed_sections
\* None or empty (both skip the filter)
AllowedSections(req, s_index, sstore, q_vec) ==
    IF req.kind = "search" \/ ~req.use_hierarchical \/ ~s_index.loaded \/ ~sstore.exists
    THEN {}
    ELSE LET hits == IndexSearch(s_index.rows, q_vec,
                                 Min(req.section_top_k, Len(s_index.rows)))
             ok == SelectSeq(hits, LAMBDA h : h[1] # NotFound /\ h[1] <= Len(sstore.rows))
         IN  {sstore.rows[ok[j][1]].id : j \in 1..Len(ok)}

\* the fallback rule: the filtered list replaces candidates only when it is
\* long enough
\* (mutant) the threshold without the factor 2
FilterThresholdTopK(top_k, mmr_candidates) == Max(top_k, mmr_candidates)

FilterThreshold(top_k, mmr_candidates) == Max(top_k * 2, mmr_candidates)

FilterCandidates(candidates, allowed, store, top_k, mmr_candidates) ==
    IF allowed = {} THEN candidates
    ELSE LET filtered == SelectSeq(candidates,
                            LAMBDA c : store[c[1]].section_id \in allowed)
         IN  IF Len(filtered) >= FilterThreshold(top_k, mmr_candidates)
             THEN filtered ELSE candidates

\* the preliminary results, in selection order
Results(selected, selected_scores, store) ==
    [j \in 1..Len(selected) |->
        [id |-> store[selected[j]].id,
         text |-> store[selected[j]].text,
         section_id |-> store[selected[j]].section_id,
         row |-> selected[j],
         score |-> selected_scores[j],
         rerank_score |-> <<>>]]

\* ---------------------------------------------------------------- reranking
\* what CrossEncoder does in this deployment: "ok", or the constructor raises
\* ("no_model"), or predict raises, or float(s) raises at pair bad_at
RerankModes == {"ok", "no_model", "predict_raises", "bad_score"}

\* the score predict gives a (query, text) pair, by text
ScoreTables == [Texts -> 0..1]

\* settings.RERANK is false
RerankOff == [enabled |-> FALSE, mode |-> "ok", bad_at |-> 0, scores |-> [t \in Texts |-> 0]]

RerankFailing ==
    {[enabled |-> TRUE, mode |-> m, bad_at |-> 0, scores |-> RerankOff.scores] :
        m \in {"no_model", "predict_raises"}}
      \cup {[enabled |-> TRUE, mode |-> "bad_score", bad_at |-> b, scores |-> RerankOff.scores] :
                b \in 1..2}

RerankScoring ==
    {[enabled |-> TRUE, mode |-> "ok", bad_at |-> 0, scores |-> sc] : sc \in ScoreTables}

\* key=lambda x: x.get("rerank_score", x["score"])
SortKey(r) == IF r.rerank_score # <<>> THEN r.rerank_score[1] ELSE r.score

\* (mutant) descending, equal keys in reverse of their original order
SortDescendingUnstable(results) ==
    LET n == Len(results)
        rank(i) ==
            1 + Cardinality({k \in 1..n : SortKey(results[k]) > SortKey(results[i])})
              + Cardinality({k \in (i + 1)..n : SortKey(results[k]) = SortKey(results[i])})
    IN  [j \in 1..n |-> results[CHOOSE i \in 1..n : rank(i) = j]]

\* results.sort(key=..., reverse=True): descending, and stable
SortDescending(results) ==
    LET n == Len(results)
        rank(i) ==
            1 + Cardinality({k \in 1..n : SortKey(results[k]) > SortKey(results[i])})
              + Cardinality({k \in 1..(i - 1) : SortKey(results[k]) = SortKey(results[i])})
    IN  [j \in 1..n |-> results[CHOOSE i \in 1..n : rank(i) = j]]

\* for r, s in zip(results, rerank_scores): r["rerank_score"] = float(s),
\* as far as the loop gets (upto = Len(results) when no float(s) raises)
Scored(results, scores, upto) ==
    [j \in 1..Len(results) |->
        IF j <= upto
        THEN [results[j] EXCEPT !.rerank_score = <<scores[results[j].text]>>]
        ELSE results[j]]

\* (mutant) a try block that only constructs the CrossEncoder when the
\* instance has none, and scores when it has one
RerankTryLazy(results, reranker, rs) ==
    IF ~reranker
    THEN [results |-> results, reranker |-> rs.mode # "no_model",
          error |-> IF rs.mode = "no_model" THEN "OSError" ELSE None]
    ELSE IF rs.mode = "predict_raises"
    THEN [results |-> results, reranker |-> TRUE, error |-> "RuntimeError"]
    ELSE [results |-> SortDescending(Scored(results, rs.scores, Len(results))),
          reranker |-> TRUE, error |-> None]

\* the try block, on an instance whose _reranker is loaded or not
RerankTry(results, reranker, rs) ==
    IF ~reranker /\ rs.mode = "no_model"
    THEN [results |-> results, reranker |-> FALSE, error |-> "OSError"]
    ELSE IF rs.mode = "predict_raises"
    THEN [results |-> results, reranker |-> TRUE, error |-> "RuntimeError"]
    ELSE IF rs.mode = "bad_score" /\ rs.bad_at <= Len(results)
    THEN [results |-> Scored(results, rs.scores, rs.bad_at - 1), reranker |-> TRUE,
          error |-> "TypeError"]
    ELSE [results |-> SortDescending(Scored(results, rs.scores, Len(results))),
          reranker |-> TRUE, error |-> None]

\* (mutant) the reranking step without the except clause
RerankUncaught(results, reranker, rs) ==
    IF rs.enabled /\ results # <<>>
    THEN LET t == RerankTry(results, reranker, rs)
         IN  IF t.error # None THEN [t EXCEPT !.results = <<>>] ELSE t
    ELSE [results |-> results, reranker |-> reranker, error |-> None]

\* if settings.RERANK and results: try: ... except Exception: pass
Rerank(results, reranker, rs) ==
    IF rs.enabled /\ results # <<>>
    THEN [RerankTry(results, reranker, rs) EXCEPT !.error = None]
    ELSE [results |-> results, reranker |-> reranker, error |-> None]

NoOutcome ==
    [q_vec |-> <<>>, hits |-> <<>>, allowed |-> {}, pool |-> <<>>,
     selected |-> <<>>, selected_scores |-> <<>>, results |-> <<>>, error |-> None,
     reranker |-> FALSE]

\* everything search / search_advanced computes once it holds the index
\* handles, the store lines and the section store file; reranker says
\* whether the instance holds a CrossEncoder already, rs what reranking does
SearchOutcome(req, index, s_index, store, sstore, reranker, rs) ==
    LET q_vec == QueryVector(req)
        hits == Candidates(IndexSearch(index.rows, q_vec, RequestK(req, Len(index.rows))))
    IN  IF \E j \in 1..Len(hits) : hits[j][1] > Len(store)
        THEN [NoOutcome EXCEPT !.q_vec = q_vec, !.hits = hits, !.error = "IndexError",
                               !.reranker = reranker]
        ELSE LET allowed == AllowedSections(req, s_index, sstore, q_vec)
                 pool == FilterCandidates(hits, allowed, store, req.top_k, req.mmr_candidates)
                 st == MMRLoop(MMRStart(pool, store), q_vec, req.top_k, req.mmr_lambda)
                 rk == Rerank(Results(st.selected, st.selected_scores, store), reranker, rs)
             IN  [q_vec |-> q_vec, hits |-> hits, allowed |-> allowed, pool |-> pool,
                  selected |-> st.selected, selected_scores |-> st.selected_scores,
                  results |-> rk.results, error |-> rk.error, reranker |-> rk.reranker]

\* ------------------------------------------------------------- the state
VARIABLES
    files,        \* the storage directory: file name -> Absent or its content
    s_pc,         \* the search request: "idle", "loaded", "stored", "done", "failed"
    req,          \* its arguments
    vs,           \* its VectorStore instance: the handles index and s_index
    s_store,      \* the lines _load_store returned to it
    out,          \* what it computed: candidates, selection, results, error
    ing,          \* the /ingest request: its position and the locals of build
    snap,         \* the artifacts as they were when its build was entered
    overlap,      \* whether another writer touched the directory since then
    indexer,      \* the Indexer singleton: status, progress, last_error, ...
    t_pc,         \* the Indexer.start calls and the threads they start
    rr,           \* reranking: settings.RERANK and what the CrossEncoder does
    prev,         \* the outcome of the search made before the last one
    index_reads,  \* how many times faiss.read_index(index_path) loaded the index
    bs            \* build_sections and chunk_sections at work on a list of pages

searchVars == <<s_pc, req, vs, s_store, out, prev, index_reads>>
ingestVars == <<ing, snap, overlap>>
indexerVars == <<indexer, t_pc>>
vars ==
    <<files, s_pc, req, vs, s_store, out, ing, snap, overlap, indexer, t_pc,
      rr, prev, index_reads, bs>>

NoRequest ==
    [kind |-> None, query |-> None, top_k |-> 0, mmr_lambda |-> 0, mmr_candidates |-> 0,
     hyde |-> None, use_hierarchical |-> FALSE, section_top_k |-> 0]

\* VectorStore.__init__: both handles None
NewVectorStore == [index |-> NoHandle, s_index |-> NoHandle, reranker |-> FALSE]

\* ------------------------------------------------------ request arguments
Queries == {"a", "c"}
TopKs == 0..MaxTopK
Lambdas == {0, 5, 10}
MmrCandidates == {2, 24}
Hydes == {None, "b"}
\* (use_hierarchical, section_top_k); section_top_k plays no role when
\* use_hierarchical is False
HierarchicalChoices == {<<FALSE, 1>>, <<TRUE, 1>>, <<TRUE, 2>>}

SearchRequests ==
    {[kind |-> "search", query |-> q, top_k |-> k, mmr_lambda |-> l, mmr_candidates |-> m,
      hyde |-> None, use_hierarchical |-> FALSE, section_top_k |-> 0] :
        q \in Queries, k \in TopKs, l \in Lambdas, m \in MmrCandidates}

AdvancedRequests ==
    {[kind |-> "search_advanced", query |-> qk[1], top_k |-> qk[2], mmr_lambda |-> l,
      mmr_candidates |-> m, hyde |-> h, use_hierarchical |-> us[1], section_top_k |-> us[2]] :
        qk \in Queries \X TopKs, l \in Lambdas, m \in MmrCandidates, h \in Hydes,
        us \in HierarchicalChoices}

\* meta.json: the keys ingest_pdf writes and the keys build adds (NoKey
\* where the key is not there)
NoKey == -1

\* settings.EMBEDDING_MODEL_NAME
EmbeddingModelName == "current"

IngestMeta(chunks, sections) ==
    [chunks |-> Len(chunks), sections |-> Len(sections),
     embedding_model |-> EmbeddingModelName,
     embeddings |-> NoKey, sections_embedded |-> NoKey]

EmptyMeta ==
    [chunks |-> NoKey, sections |-> NoKey, embedding_model |-> None,
     embeddings |-> NoKey, sections_embedded |-> NoKey]

\* meta.update({...}) of build
UpdatedMeta(meta, chunks, sections) ==
    [meta EXCEPT !.embeddings = Len(chunks), !.embedding_model = EmbeddingModelName,
                 !.sections_embedded = Len(sections)]

\* -------------------------------------------- a storage directory, built
\* the storage directory after ingestion wrote chunks (and sections, when
\* withSections) and build returned
BuiltFiles(chunks, withSections) ==
    [f \in FileNames |->
        CASE f = ChunksPath -> Written(chunks)
          [] f = IndexPath -> Written(BuildRows(chunks))
          [] f = StorePath -> Written(StoreLines(chunks))
          [] f = SectionsPath -> IF withSections THEN Written(SectionRecords) ELSE Absent
          [] f = SIndexPath -> IF withSections THEN Written(BuildRows(SectionRecords)) ELSE Absent
          [] f = SStorePath -> IF withSections THEN Written(StoreLines(SectionRecords)) ELSE Absent
          [] OTHER -> Written(<<UpdatedMeta(
                                   IngestMeta(chunks, IF withSections THEN SectionRecords ELSE <<>>),
                                   chunks, IF withSections THEN SectionRecords ELSE <<>>)>>)]

EmptyFiles == [f \in FileNames |-> Absent]

\* a storage directory built while settings.EMBEDDING_MODEL_NAME named
\* another model of the same dimension: the rows of both indexes are that
\* model's embeddings, and meta.json names it
EarlierModelName == "earlier"

EarlierModelEncodeOne(t) ==
    CASE t = "a" -> <<0, 20>>
      [] t = "b" -> <<5, 0>>
      [] t = "c" -> <<7, 7>>
      [] OTHER -> <<0, 0>>

EarlierBuildRows(records) ==
    Normalize([j \in 1..Len(records) |-> EarlierModelEncodeOne(records[j].text)])

StaleFiles(chunks) ==
    [BuiltFiles(chunks, TRUE) EXCEPT
        ![IndexPath] = Written(EarlierBuildRows(chunks)),
        ![SIndexPath] = Written(EarlierBuildRows(SectionRecords)),
        ![MetaPath] = Written(<<[UpdatedMeta(IngestMeta(chunks, SectionRecords),
                                             chunks, SectionRecords)
                                   EXCEPT !.embedding_model = EarlierModelName]>>)]

\* a built storage directory whose index.faiss was removed
UnindexedFiles(chunks) == [BuiltFiles(chunks, TRUE) EXCEPT ![IndexPath] = Absent]

\* chunk_sections emits the chunks section by section, in section order
ChunkLists ==
    {kinds \in UNION {[1..n -> ChunkKinds] : n \in 1..MaxChunks} :
        \A i, j \in 1..Len(kinds) :
            (i < j /\ kinds[i][2] = "s2") => kinds[j][2] = "s2"}

\* without persisted sections the section_id of a chunk is never read
PlainChunkLists == UNION {[1..n -> Texts \X {"s1"}] : n \in 1..MaxChunks}

\* ------------------------------------------------ ingestion and Indexer
MaxStarts == 2

Calls == 1..MaxStarts

\* what ingest_pdf persists for the PDF at the given path
Docs == {"manual", "draft"}

DocChunks(doc) ==
    IF doc = "manual"
    THEN MakeChunks(<<<<"a", "s1">>, <<"c", "s1">>, <<"b", "s2">>>>)
    ELSE MakeChunks(<<<<"b", "s1">>, <<"a", "s1">>>>)

DocSections(doc) == SectionRecords

\* settings.DEFAULT_PDF_PATH, which Indexer.start falls back to
DefaultPdf == "manual"

\* ret is the "embeddings" entry of what build returned, error what it raised
NoIngest == [pc |-> "idle", chunks |-> <<>>, sections |-> <<>>, ret |-> NoKey, error |-> None]

\* Indexer.__init__
NewIndexer ==
    [status |-> "idle", progress |-> 0, started |-> FALSE, ended |-> FALSE,
     last_error |-> None, thread |-> 0]

\* --------------------------------------------- one search, start to return
\* inst.search(...) / inst.search_advanced(...) on a storage directory no
\* build is writing: the handles the instance holds afterwards, the store
\* lines it read and what it computed
Call(r, inst, fs, rs) ==
    LET ld == EnsureLoaded(inst.index, inst.s_index, fs)
        held == [inst EXCEPT !.index = ld.index, !.s_index = ld.s_index]
    IN  IF ld.error # None
        THEN [vs |-> held, s_store |-> <<>>,
              out |-> [NoOutcome EXCEPT !.error = ld.error, !.reranker = inst.reranker]]
        ELSE IF ~IsFile(fs, StorePath)
        THEN [vs |-> held, s_store |-> <<>>,
              out |-> [NoOutcome EXCEPT !.error = "FileNotFoundError",
                                        !.reranker = inst.reranker]]
        ELSE [vs |-> held, s_store |-> fs[StorePath].rows,
              out |-> SearchOutcome(r, ld.index, ld.s_index, fs[StorePath].rows,
                                    fs[SStorePath], inst.reranker, rs)]

\* VectorStore().search(...) / VectorStore().search_advanced(...)
SearchRun(r) ==
    /\ s_pc = "idle"
    /\ req' = r
    /\ \E c \in {Call(r, NewVectorStore, files, rr)} :
         /\ vs' = [c.vs EXCEPT !.reranker = c.out.reranker]
         /\ s_store' = c.s_store
         /\ out' = c.out
         /\ s_pc' = IF c.out.error = None THEN "done" ELSE "failed"
    /\ index_reads' = index_reads + IndexFileReads(NewVectorStore.index, files)
    /\ UNCHANGED <<rr, bs, prev, files, ingestVars, indexerVars>>

Search == \E r \in SearchRequests : SearchRun(r)

SearchAdvanced == \E r \in AdvancedRequests : SearchRun(r)

\* ----------------------------------------- build_sections, chunk_sections
MaxPages == 3
MaxPieces == 2

\* what detect_headings finds on a page: no candidate ("plain"), a first
\* candidate that is a heading ("heading", or "numbered" like "1.2 Setup"),
\* or one that starts with toc / index and is skipped ("toc")
PageKinds == {"plain", "heading", "numbered", "toc"}

PageLists == UNION {[1..n -> PageKinds] : n \in 0..MaxPages}

\* build_sections not called
NoPages ==
    [pc |-> "idle", pages |-> <<>>, idx |-> 0, cur_title |-> None, cur_level |-> 0,
     cur_start |-> 0, cur_text_parts |-> 0, sections |-> <<>>, chunks |-> <<>>]

\* Section(title=cur_title, level=cur_level, page_start=cur_start, page_end=...)
CurrentSection(b, page_end) ==
    [title |-> b.cur_title, level |-> b.cur_level, page_start |-> b.cur_start,
     page_end |-> page_end, id |-> Len(b.sections) + 1]

\* (mutant) the previous section committed whether or not it has text
CommitPreviousAlways(b) == Append(b.sections, CurrentSection(b, b.idx - 1))

\* commit previous section: if cur_text_parts: sections.append(...)
CommitPrevious(b) ==
    IF b.cur_text_parts > 0
    THEN Append(b.sections, CurrentSection(b, b.idx - 1))
    ELSE b.sections

\* level = 1, or min(3, dots + 1) for a numbered heading
HeadingLevel(kind) == IF kind = "numbered" THEN 2 ELSE 1

\* build_sections(page_blocks): the locals before the loop
BuildSectionsBegin ==
    /\ bs.pc = "idle"
    /\ \E pages \in PageLists :
         bs' = [NoPages EXCEPT !.pc = "paging", !.pages = pages, !.idx = 1,
                               !.cur_title = "Document", !.cur_level = 1, !.cur_start = 1]
    /\ UNCHANGED <<rr, files, searchVars, ingestVars, indexerVars>>

\* one iteration of the loop over the pages
BuildSectionsPage ==
    /\ bs.pc = "paging"
    /\ bs.idx <= Len(bs.pages)
    /\ LET kind == bs.pages[bs.idx]
           started == IF kind \in {"heading", "numbered"}
                      THEN [bs EXCEPT !.sections = CommitPrevious(bs),
                                      !.cur_title = kind, !.cur_level = HeadingLevel(kind),
                                      !.cur_text_parts = 0, !.cur_start = bs.idx]
                      ELSE bs
       IN  bs' = [started EXCEPT !.cur_text_parts = @ + 2, !.idx = @ + 1]
    /\ UNCHANGED <<rr, files, searchVars, ingestVars, indexerVars>>

\* flush last section, return sections
BuildSectionsFlush ==
    /\ bs.pc = "paging"
    /\ bs.idx > Len(bs.pages)
    /\ bs' = [bs EXCEPT !.pc = "sectioned",
                         !.sections = IF bs.cur_text_parts > 0
                                      THEN Append(bs.sections, CurrentSection(bs, Len(bs.pages)))
                                      ELSE bs.sections]
    /\ UNCHANGED <<rr, files, searchVars, ingestVars, indexerVars>>

\* the chunks of one section, pieces being what smart_split made of its text
SectionChunks(sec, pieces) ==
    [i \in 1..pieces |->
        [section_id |-> sec.id, level |-> sec.level, page_start |-> sec.page_start,
         page_end |-> sec.page_end, chunk_index |-> i - 1]]

RECURSIVE ChunkSectionsFrom(_, _, _, _, _)
\* for s in sections: for i, txt in enumerate(pieces): chunks.append(...);
\* if max_chunks and len(chunks) >= max_chunks: return chunks
ChunkSectionsFrom(sections, pieces, max_chunks, k, chunks) ==
    IF k > Len(sections) THEN chunks
    ELSE LET all == chunks \o SectionChunks(sections[k], pieces[k])
         IN  IF max_chunks # 0 /\ Len(all) >= max_chunks
             THEN SubSeq(all, 1, max_chunks)
             ELSE ChunkSectionsFrom(sections, pieces, max_chunks, k + 1, all)

\* chunk_sections(sections, ..., max_chunks); every section text holds its
\* "[Page n]" markers, so smart_split returns at least one piece
ChunkSections ==
    /\ bs.pc = "sectioned"
    /\ \E pieces \in [1..Len(bs.sections) -> 1..MaxPieces], max_chunks \in {0, 2} :
         bs' = [bs EXCEPT !.pc = "chunked",
                          !.chunks = ChunkSectionsFrom(bs.sections, pieces, max_chunks, 1, <<>>)]
    /\ UNCHANGED <<rr, files, searchVars, ingestVars, indexerVars>>


\* no request in flight, the Indexer as constructed
Quiet ==
    /\ s_pc = "idle"
    /\ req = NoRequest
    /\ vs = NewVectorStore
    /\ s_store = <<>>
    /\ out = NoOutcome
    /\ prev = NoOutcome
    /\ index_reads = 0
    /\ bs = NoPages
    /\ ing = NoIngest
    /\ snap = EmptyFiles
    /\ overlap = FALSE
    /\ indexer = NewIndexer
    /\ t_pc = [c \in Calls |-> "idle"]

InitSearch ==
    /\ files \in {BuiltFiles(MakeChunks(kinds), TRUE) : kinds \in ChunkLists}
                   \cup {BuiltFiles(MakeChunks(kinds), FALSE) : kinds \in PlainChunkLists}
                   \cup {EmptyFiles}
    /\ rr = RerankOff
    /\ Quiet

NextSearch == Search \/ SearchAdvanced

SpecSearch == InitSearch /\ [][NextSearch]_vars

\* ------------------------------------- searches on a deployed directory
\* the same call once more, on the same instance or on a new one (the
\* handlers of main.py make a new VectorStore for every request)
SearchAgain ==
    /\ s_pc \in {"done", "failed"}
    /\ \E inst \in {NewVectorStore, vs} :
         \E c \in {Call(req, inst, files, rr)} :
             /\ vs' = [c.vs EXCEPT !.reranker = c.out.reranker]
             /\ s_store' = c.s_store
             /\ out' = c.out
             /\ index_reads' = index_reads + IndexFileReads(inst.index, files)
    /\ prev' = out
    /\ s_pc' = "repeated"
    /\ UNCHANGED <<rr, bs, req, files, ingestVars, indexerVars>>

\* a corpus long enough for three picks, whose best chunk for query "c"
\* lies outside the best section
LongChunks ==
    MakeChunks(<<<<"a", "s1">>, <<"a", "s1">>, <<"b", "s2">>, <<"c", "s2">>, <<"b", "s2">>>>)

DeployedChunks == {DocChunks(doc) : doc \in Docs} \cup {LongChunks}

\* the directory was built by this configuration, or by an earlier one with
\* another embedding model, or lost its index file; reranking is off, or
\* on with a CrossEncoder that fails or scores
InitDeployed ==
    /\ files \in {BuiltFiles(chunks, TRUE) : chunks \in DeployedChunks}
                   \cup {StaleFiles(chunks) : chunks \in DeployedChunks}
                   \cup {UnindexedFiles(chunks) : chunks \in DeployedChunks}
    /\ rr \in {RerankOff} \cup RerankFailing \cup RerankScoring
    /\ Quiet

NextDeployed == Search \/ SearchAdvanced \/ SearchAgain

SpecDeployed == InitDeployed /\ [][NextDeployed]_vars

\* ------------------------------------ the pages of a PDF, made into chunks
InitSections ==
    /\ files = EmptyFiles
    /\ rr = RerankOff
    /\ Quiet

NextSections ==
    \/ BuildSectionsBegin
    \/ BuildSectionsPage
    \/ BuildSectionsFlush
    \/ ChunkSections

SpecSections == InitSections /\ [][NextSections]_vars

\* ------------------------------------------------------ ingest_pdf, build
\* the three files ingest_pdf persists
IngestPdf(fs, doc) ==
    [fs EXCEPT ![ChunksPath] = Written(DocChunks(doc)),
               ![SectionsPath] = Written(DocSections(doc)),
               ![MetaPath] = Written(<<IngestMeta(DocChunks(doc), DocSections(doc))>>)]

Building == ing.pc \notin {"idle", "ingested", "returned", "failed"}

\* POST /ingest: ingest_pdf(path), which raises when there is no PDF at path
IngestBegin ==
    /\ ing.pc = "idle"
    /\ \E doc \in Docs \cup {"missing"} :
         IF doc = "missing"
         THEN /\ ing' = [ing EXCEPT !.pc = "failed", !.error = "PDF not found"]
              /\ files' = files
         ELSE /\ ing' = [ing EXCEPT !.pc = "ingested"]
              /\ files' = IngestPdf(files, doc)
    /\ snap' = files'
    /\ overlap' = FALSE
    /\ UNCHANGED <<rr, bs, searchVars, indexerVars>>

\* (mutant) _load_chunks returning no records when the file is not there
LoadChunksOrEmpty(fs) ==
    [items |-> IF IsFile(fs, ChunksPath) THEN fs[ChunksPath].rows ELSE <<>>, error |-> None]

\* _load_chunks
LoadChunks(fs) ==
    IF ~IsFile(fs, ChunksPath)
    THEN [items |-> <<>>, error |-> "FileNotFoundError"]
    ELSE [items |-> fs[ChunksPath].rows, error |-> None]

\* build: _load_chunks, then encode and normalise the chunk texts; the
\* embedding provider may fail, and an empty batch cannot be normalised
BuildLoadChunks ==
    /\ ing.pc = "ingested"
    /\ snap' = files
    /\ overlap' = FALSE
    /\ LET ld == LoadChunks(files)
       IN  \E encoded \in BOOLEAN :
             IF ld.error # None
             THEN ing' = [ing EXCEPT !.pc = "failed", !.error = ld.error]
             ELSE IF ld.items = <<>> \/ ~encoded
             THEN ing' = [ing EXCEPT !.pc = "failed", !.error = "EncodeError"]
             ELSE ing' = [ing EXCEPT !.pc = "encoded", !.chunks = ld.items]
    /\ UNCHANGED <<rr, bs, files, searchVars, indexerVars>>

\* a writer opens a file for writing: the file is there, and empty
BuildOpen(at, path, next) ==
    /\ ing.pc = at
    /\ files' = [files EXCEPT ![path] = Truncated]
    /\ ing' = [ing EXCEPT !.pc = next]
    /\ UNCHANGED <<rr, bs, snap, overlap, searchVars, indexerVars>>

\* the writer has written and closed it
BuildWrite(at, path, rows, next) ==
    /\ ing.pc = at
    /\ files' = [files EXCEPT ![path] = Written(rows)]
    /\ ing' = [ing EXCEPT !.pc = next]
    /\ UNCHANGED <<rr, bs, snap, overlap, searchVars, indexerVars>>

\* faiss.write_index(index, self.index_path)
BuildOpenIndex == BuildOpen("encoded", IndexPath, "index_open")
BuildWriteIndex == BuildWrite("index_open", IndexPath, BuildRows(ing.chunks), "index_written")

\* with open(self.store_path, "w") ...
BuildOpenStore == BuildOpen("index_written", StorePath, "store_open")
BuildWriteStore == BuildWrite("store_open", StorePath, StoreLines(ing.chunks), "store_written")

\* _load_sections, then encode and normalise the section texts
BuildLoadSections ==
    /\ ing.pc = "store_written"
    /\ LET sections == IF IsFile(files, SectionsPath) THEN files[SectionsPath].rows ELSE <<>>
       IN  IF sections = <<>>
           THEN ing' = [ing EXCEPT !.pc = "sections_done", !.sections = <<>>]
           ELSE \E encoded \in BOOLEAN :
                  IF encoded
                  THEN ing' = [ing EXCEPT !.pc = "s_encoded", !.sections = sections]
                  ELSE ing' = [ing EXCEPT !.pc = "failed", !.sections = sections,
                                          !.error = "EncodeError"]
    /\ UNCHANGED <<rr, bs, files, snap, overlap, searchVars, indexerVars>>

BuildOpenSIndex == BuildOpen("s_encoded", SIndexPath, "s_index_open")
BuildWriteSIndex ==
    BuildWrite("s_index_open", SIndexPath, BuildRows(ing.sections), "s_index_written")
BuildOpenSStore == BuildOpen("s_index_written", SStorePath, "s_store_open")
BuildWriteSStore ==
    BuildWrite("s_store_open", SStorePath, StoreLines(ing.sections), "sections_done")

\* a write fails after the file was opened
BuildWriteFails ==
    /\ ing.pc \in {"index_open", "store_open", "s_index_open", "s_store_open"}
    /\ ing' = [ing EXCEPT !.pc = "failed", !.error = "OSError"]
    /\ UNCHANGED <<rr, bs, files, snap, overlap, searchVars, indexerVars>>

\* read meta.json if it is there, update it, write it; build returns
\* {"embeddings": len(chunks), "dim": self.dim}
BuildUpdateMeta ==
    /\ ing.pc = "sections_done"
    /\ LET meta == IF IsFile(files, MetaPath) THEN files[MetaPath].rows[1] ELSE EmptyMeta
       IN  files' = [files EXCEPT ![MetaPath] =
                        Written(<<UpdatedMeta(meta, ing.chunks, ing.sections)>>)]
    /\ ing' = [ing EXCEPT !.pc = "returned", !.ret = Len(ing.chunks)]
    /\ UNCHANGED <<rr, bs, snap, overlap, searchVars, indexerVars>>

\* the handler answers (200, or 500 after an exception)
IngestReturn ==
    /\ ing.pc \in {"returned", "failed"}
    /\ ing' = NoIngest
    /\ snap' = EmptyFiles
    /\ overlap' = FALSE
    /\ UNCHANGED <<rr, bs, files, searchVars, indexerVars>>

\* ------------------------------------------- build, called on a directory
\* VectorStore().build() on a storage directory as it stands
BuildBegin ==
    /\ ing.pc = "idle"
    /\ ing' = [ing EXCEPT !.pc = "ingested"]
    /\ snap' = files
    /\ overlap' = FALSE
    /\ UNCHANGED <<rr, bs, files, searchVars, indexerVars>>

\* the call is over
BuildEnd ==
    /\ ing.pc \in {"returned", "failed"}
    /\ ing' = [NoIngest EXCEPT !.pc = "over"]
    /\ UNCHANGED <<rr, bs, files, snap, overlap, searchVars, indexerVars>>

\* the files ingestion persists, in a directory never built
IngestedFiles(chunks, withSections) ==
    [f \in FileNames |->
        CASE f = ChunksPath -> Written(chunks)
          [] f = SectionsPath -> IF withSections THEN Written(SectionRecords) ELSE Absent
          [] f = MetaPath ->
                Written(<<IngestMeta(chunks, IF withSections THEN SectionRecords ELSE <<>>)>>)
          [] OTHER -> Absent]

\* a directory never built, with or without ingested files (chunks.jsonl
\* may hold no record), or a built one that lost chunks.jsonl or received
\* the files of another ingestion
InitBuild ==
    /\ files \in {EmptyFiles, IngestedFiles(<<>>, FALSE)}
                   \cup {IngestedFiles(MakeChunks(kinds), TRUE) : kinds \in ChunkLists}
                   \cup {IngestedFiles(MakeChunks(kinds), FALSE) : kinds \in PlainChunkLists}
                   \cup {[BuiltFiles(MakeChunks(kinds), TRUE) EXCEPT ![ChunksPath] = Absent] :
                            kinds \in ChunkLists}
                   \cup {IngestPdf(BuiltFiles(MakeChunks(kinds), TRUE), doc) :
                            kinds \in PlainChunkLists, doc \in Docs}
    /\ rr = RerankOff
    /\ Quiet

NextBuild ==
    \/ BuildBegin
    \/ BuildLoadChunks
    \/ BuildOpenIndex
    \/ BuildWriteIndex
    \/ BuildOpenStore
    \/ BuildWriteStore
    \/ BuildLoadSections
    \/ BuildOpenSIndex
    \/ BuildWriteSIndex
    \/ BuildOpenSStore
    \/ BuildWriteSStore
    \/ BuildWriteFails
    \/ BuildUpdateMeta
    \/ BuildEnd

SpecBuild == InitBuild /\ [][NextBuild]_vars

\* ------------------------------------------------------------ the Indexer
\* _progress: progress=max(0, min(100, int(pct)))
Progress(pct) == Max(0, Min(100, pct))

Alive(c) == c # 0 /\ t_pc[c] \in {"started", "indexing"}

\* start: with self._lock: if already indexing, return the status
StartEnter(c) ==
    /\ t_pc[c] = "idle"
    /\ IF indexer.status = "indexing" /\ Alive(indexer.thread)
       THEN t_pc' = [t_pc EXCEPT ![c] = "done"]
       ELSE t_pc' = [t_pc EXCEPT ![c] = "check_index"]
    /\ UNCHANGED <<rr, bs, files, indexer, searchVars, ingestVars>>

\* (mutant) start begins a run whether or not the index file exists
StartCheckIndexRebuilds(c) ==
    /\ t_pc[c] = "check_index"
    /\ indexer' = [indexer EXCEPT !.thread = c]
    /\ t_pc' = [t_pc EXCEPT ![c] = "started"]
    /\ UNCHANGED <<rr, bs, files, searchVars, ingestVars>>

\* start: if the index file exists, mark ready and return; otherwise
\* self._thread = t; t.start()
StartCheckIndex(c) ==
    /\ t_pc[c] = "check_index"
    /\ IF IsFile(files, IndexPath)
       THEN /\ indexer' = [indexer EXCEPT !.status = "ready", !.progress = 100]
            /\ t_pc' = [t_pc EXCEPT ![c] = "done"]
       ELSE /\ indexer' = [indexer EXCEPT !.thread = c]
            /\ t_pc' = [t_pc EXCEPT ![c] = "started"]
    /\ UNCHANGED <<rr, bs, files, searchVars, ingestVars>>

\* _run: the first _set
RunBegin(c) ==
    /\ t_pc[c] = "started"
    /\ indexer' = [indexer EXCEPT !.status = "indexing", !.progress = 1, !.started = TRUE,
                                  !.ended = FALSE, !.last_error = None]
    /\ t_pc' = [t_pc EXCEPT ![c] = "indexing"]
    /\ UNCHANGED <<rr, bs, files, searchVars, ingestVars>>

\* (mutant) _run without its except clause: what the try block raises ends
\* the thread and nothing is recorded
RunBodyEscapes(c) ==
    /\ t_pc[c] = "indexing"
    /\ \E doc \in {DefaultPdf, "missing"} :
         IF doc = "missing"
         THEN /\ files' = files
              /\ indexer' = [indexer EXCEPT !.progress = Progress(10)]
              /\ overlap' = overlap
         ELSE /\ files' = IngestPdf(files, doc)
              /\ indexer' = [indexer EXCEPT !.progress = Progress(56)]
              /\ overlap' = (overlap \/ Building)
    /\ t_pc' = [t_pc EXCEPT ![c] = "done"]
    /\ UNCHANGED <<rr, bs, searchVars, ing, snap>>

\* _run: the try block.  _progress(10); ingest_pdf, which raises when there
\* is no PDF at the path; _progress(55); VectorStore(); _progress(56); then
\* vs.build(progress_cb=cb), which raises TypeError because build takes no
\* such argument.  Either way the except clause records the error.
RunBody(c) ==
    /\ t_pc[c] = "indexing"
    /\ \E doc \in {DefaultPdf, "missing"} :
         IF doc = "missing"
         THEN /\ files' = files
              /\ indexer' = [indexer EXCEPT !.status = "error", !.progress = Progress(10),
                                            !.last_error = "PDF not found", !.ended = TRUE]
              /\ overlap' = overlap
         ELSE /\ files' = IngestPdf(files, doc)
              /\ indexer' = [indexer EXCEPT !.status = "error", !.progress = Progress(56),
                                            !.last_error = "TypeError", !.ended = TRUE]
              /\ overlap' = (overlap \/ Building)
    /\ t_pc' = [t_pc EXCEPT ![c] = "done"]
    /\ UNCHANGED <<rr, bs, searchVars, ing, snap>>

\* ------------------------------------- a search beside the writers, by step
HandlerRequests ==
    {r \in SearchRequests \cup AdvancedRequests :
        /\ r.query = "a" /\ r.top_k = 2 /\ r.mmr_lambda = 5 /\ r.mmr_candidates = 24
        /\ r.hyde = None
        /\ r.kind = "search_advanced" => r.use_hierarchical /\ r.section_top_k = 1}

\* index file loads after which no further request is followed
MaxReads == 2

\* a request arrives, the one before it answered; the handler makes its own
\* instance: vs = VectorStore()
SearchBegin ==
    /\ s_pc \in {"idle", "done", "failed"}
    /\ index_reads < MaxReads
    /\ \E r \in HandlerRequests : req' = r
    /\ vs' = NewVectorStore
    /\ s_store' = <<>>
    /\ out' = NoOutcome
    /\ s_pc' = "called"
    /\ UNCHANGED <<rr, bs, prev, index_reads, files, ingestVars, indexerVars>>

\* self._ensure_loaded()
SearchEnsureLoaded ==
    /\ s_pc = "called"
    /\ LET ld == EnsureLoaded(vs.index, vs.s_index, files)
       IN  /\ vs' = [vs EXCEPT !.index = ld.index, !.s_index = ld.s_index]
           /\ out' = [out EXCEPT !.error = ld.error]
           /\ s_pc' = IF ld.error = None THEN "loaded" ELSE "failed"
    /\ index_reads' = index_reads + IndexFileReads(vs.index, files)
    /\ UNCHANGED <<rr, bs, prev, files, req, s_store, ingestVars, indexerVars>>

\* the index is searched and store.jsonl is read; search goes on to select
SearchLoadStore ==
    /\ s_pc = "loaded"
    /\ IF ~IsFile(files, StorePath)
       THEN /\ s_store' = <<>>
            /\ out' = [out EXCEPT !.error = "FileNotFoundError"]
            /\ s_pc' = "failed"
       ELSE /\ s_store' = files[StorePath].rows
            /\ IF req.kind = "search"
               THEN /\ out' = SearchOutcome(req, vs.index, vs.s_index, s_store', Absent,
                                            vs.reranker, rr)
                    /\ s_pc' = IF out'.error = None THEN "done" ELSE "failed"
               ELSE /\ out' = out
                    /\ s_pc' = "stored"
    /\ vs' = [vs EXCEPT !.reranker = out'.reranker]
    /\ UNCHANGED <<rr, bs, prev, index_reads, files, req, ingestVars, indexerVars>>

\* search_advanced reads store_sections.jsonl, filters and selects
SearchSections ==
    /\ s_pc = "stored"
    /\ out' = SearchOutcome(req, vs.index, vs.s_index, s_store, files[SStorePath],
                            vs.reranker, rr)
    /\ s_pc' = IF out'.error = None THEN "done" ELSE "failed"
    /\ vs' = [vs EXCEPT !.reranker = out'.reranker]
    /\ UNCHANGED <<rr, bs, prev, index_reads, files, req, s_store, ingestVars, indexerVars>>

\* ---------------------------------------------------------- the system
Init ==
    /\ files = EmptyFiles
    /\ rr = RerankOff
    /\ Quiet

Next ==
    \/ IngestBegin
    \/ BuildLoadChunks
    \/ BuildOpenIndex
    \/ BuildWriteIndex
    \/ BuildOpenStore
    \/ BuildWriteStore
    \/ BuildLoadSections
    \/ BuildOpenSIndex
    \/ BuildWriteSIndex
    \/ BuildOpenSStore
    \/ BuildWriteSStore
    \/ BuildWriteFails
    \/ BuildUpdateMeta
    \/ IngestReturn
    \/ \E c \in Calls : StartEnter(c)
    \/ \E c \in Calls : StartCheckIndex(c)
    \/ \E c \in Calls : RunBegin(c)
    \/ \E c \in Calls : RunBody(c)

Spec == Init /\ [][Next]_vars

\* the /ingest handler beside a /search or /query handler
NextReaders ==
    \/ IngestBegin
    \/ BuildLoadChunks
    \/ BuildOpenIndex
    \/ BuildWriteIndex
    \/ BuildOpenStore
    \/ BuildWriteStore
    \/ BuildLoadSections
    \/ BuildOpenSIndex
    \/ BuildWriteSIndex
    \/ BuildOpenSStore
    \/ BuildWriteSStore
    \/ BuildWriteFails
    \/ BuildUpdateMeta
    \/ IngestReturn
    \/ SearchBegin
    \/ SearchEnsureLoaded
    \/ SearchLoadStore
    \/ SearchSections

SpecReaders == Init /\ [][NextReaders]_vars

\* ------------------------------------ the Indexer alone, threads scheduled
\* the storage directory as Indexer.start may find it: empty, built by an
\* earlier /ingest, or ingested and not indexed
InitIndexer ==
    /\ files \in {EmptyFiles}
                   \cup {BuiltFiles(DocChunks(doc), TRUE) : doc \in Docs}
                   \cup {UnindexedFiles(DocChunks(doc)) : doc \in Docs}
    /\ rr = RerankOff
    /\ Quiet

NextIndexer ==
    \/ \E c \in Calls : StartEnter(c)
    \/ \E c \in Calls : StartCheckIndex(c)
    \/ \E c \in Calls : RunBegin(c)
    \/ \E c \in Calls : RunBody(c)

\* a call of start that has entered runs to its return, and a thread that
\* was started runs to its end
SpecIndexer ==
    /\ InitIndexer
    /\ [][NextIndexer]_vars
    /\ \A c \in Calls :
          WF_vars(StartCheckIndex(c)) /\ WF_vars(RunBegin(c)) /\ WF_vars(RunBody(c))

\* ------------------------------- searches on one instance, across builds
\* a caller that keeps its VectorStore: search between two /ingest requests
KeptRequests ==
    {r \in SearchRequests :
        r.top_k = MaxTopK /\ r.mmr_lambda = 5 /\ r.mmr_candidates = 24}

SearchBetweenBuilds ==
    /\ ing.pc = "idle"
    /\ \E r \in KeptRequests : SearchRun(r)

\* the same call once more on the instance kept (or on a new one), after
\* whatever /ingest requests were served in between
SearchAgainBetweenBuilds ==
    /\ ing.pc = "idle"
    /\ SearchAgain

NextRebuild ==
    \/ IngestBegin
    \/ BuildLoadChunks
    \/ BuildOpenIndex
    \/ BuildWriteIndex
    \/ BuildOpenStore
    \/ BuildWriteStore
    \/ BuildLoadSections
    \/ BuildOpenSIndex
    \/ BuildWriteSIndex
    \/ BuildOpenSStore
    \/ BuildWriteSStore
    \/ BuildWriteFails
    \/ BuildUpdateMeta
    \/ IngestReturn
    \/ SearchBetweenBuilds
    \/ SearchAgainBetweenBuilds

SpecRebuild == Init /\ [][NextRebuild]_vars

\* ================================================================ claims
\* what the claims speak of, read off the state
Done == s_pc = "done"
PoolRows == {out.pool[j][1] : j \in 1..Len(out.pool)}
RowVec(row) == NormalizeRow(ModelEncodeOne(s_store[row].text))
Relevance(row) == Dot(RowVec(row), out.q_vec)
Picked(j) == {out.selected[r] : r \in 1..(j - 1)}
ScenarioStore == MakeChunks(<<<<"a", "s1">>, <<"b", "s1">>, <<"c", "s1">>>>)
InScenario(lambda) ==
    /\ s_store = ScenarioStore
    /\ req.query = "a" /\ req.hyde = None /\ req.top_k = 2 /\ req.mmr_lambda = lambda
    /\ out.pool = out.hits

\* C1: the MMR loop selects exactly min(top_k, n) items, n being the number
\* of candidates before the loop starts.
C1_SelectsMinTopKN ==
    Done => Len(out.selected) = Min(req.top_k, Len(out.pool))

\* C2: every pick after the first maximises
\* lambda * sim(c, query) + (1 - lambda) * (1 - max sim(c, selected so far))
\* over the remaining candidates; in the three chunk scenario with lambda 0
\* the selection is [a, b].
MMRValue(row, chosen) ==
    req.mmr_lambda * Relevance(row)
      + (LambdaOne - req.mmr_lambda)
          * (Unit * Unit - MaxOver({Dot(RowVec(row), RowVec(p)) : p \in chosen}))

C2_PicksMaximiseMMR ==
    Done =>
      /\ \A j \in 2..Len(out.selected) :
           \A r \in PoolRows \ Picked(j) :
               MMRValue(out.selected[j], Picked(j)) >= MMRValue(r, Picked(j))
      /\ InScenario(0) => out.selected = <<1, 2>>

\* C3: at most one index build (a run of the Indexer, or a /ingest request)
\* is in progress at any time.
RunningBuilds ==
    Cardinality({c \in Calls : Alive(c)})
      + (IF ing.pc \in {"idle", "returned", "failed"} THEN 0 ELSE 1)

C3_AtMostOneBuild == RunningBuilds <= 1

\* C4: a search beside a build reads an index and a store that come from
\* one completed build: the index it holds is the embedding of the store
\* lines it read, and it never reads a file a writer has only partly written.
StoreWasRead == s_pc \in {"stored", "done"} \/ out.error = "IndexError"

C4_SearchReadsOneBuild ==
    /\ out.error # "ReadError"
    /\ StoreWasRead => vs.index.rows = BuildRows(s_store)

\* C5: when build fails, every persisted artifact is as it was before the
\* build started.
C5_FailedBuildLeavesArtifacts ==
    (ing.pc = "failed" /\ ~overlap) => \A f \in Artifacts : files[f] = snap[f]

\* C6: when build returns, the chunk index and the chunk store have the same
\* number of rows and index row i is the embedding of the text of store
\* record i; likewise the section index and store when sections were built.
RowsAligned(ipath, spath) ==
    /\ IsFile(files, ipath) /\ ~files[ipath].partial
    /\ IsFile(files, spath) /\ ~files[spath].partial
    /\ Len(files[ipath].rows) = Len(files[spath].rows)
    /\ \A i \in 1..Len(files[spath].rows) :
          files[ipath].rows[i] = NormalizeRow(ModelEncodeOne(files[spath].rows[i].text))

C6_BuildAlignsRows ==
    ing.pc = "returned" =>
      /\ RowsAligned(IndexPath, StorePath)
      /\ files[StorePath].rows = ing.chunks
      /\ ing.sections # <<>> =>
            RowsAligned(SIndexPath, SStorePath) /\ files[SStorePath].rows = ing.sections

C6_Witness ==
    /\ ing.pc = "returned" /\ ing.sections # <<>>
    /\ Len(files[StorePath].rows) = 3
    /\ IsFile(snap, IndexPath) /\ Len(snap[IndexPath].rows) = 2
    /\ overlap

\* C7: with mmr_lambda = 1.0 the selection follows descending relevance to
\* the query: every pick is a most relevant candidate among those not yet
\* picked, and the three chunk scenario selects [a, c].
C7_LambdaOneIsRelevanceOrder ==
    (Done /\ req.mmr_lambda = LambdaOne) =>
      /\ \A j \in 1..Len(out.selected) :
           \A r \in PoolRows \ Picked(j) : Relevance(out.selected[j]) >= Relevance(r)
      /\ InScenario(LambdaOne) => out.selected = <<1, 3>>

C7_Witness ==
    /\ Done /\ req.mmr_lambda = LambdaOne /\ InScenario(LambdaOne)
    /\ out.selected = <<1, 3>>

\* C8: the first pick is a candidate of highest raw index score over the
\* whole pool, whatever mmr_lambda is and in whatever order the candidates
\* are listed.
Perms(n) == {f \in [1..n -> 1..n] : \A x, y \in 1..n : x # y => f[x] # f[y]}
PoolScores == {out.pool[j][2] : j \in 1..Len(out.pool)}

C8_FirstPickIsBestRawScore ==
    (Done /\ out.selected # <<>>) =>
      /\ out.selected_scores[1] = MaxOver(PoolScores)
      /\ \E j \in 1..Len(out.pool) :
            out.pool[j] = <<out.selected[1], out.selected_scores[1]>>
      /\ \A f \in Perms(Len(out.pool)) :
            LET listed == [j \in 1..Len(out.pool) |-> out.pool[f[j]]]
                st == MMRStart(listed, s_store)
                pos == ChosenPos(st, out.q_vec, req.mmr_lambda)
            IN  /\ listed[pos][2] = MaxOver(PoolScores)
                /\ ChosenGlobalIdx(st, pos) = listed[pos][1]

C8_Witness ==
    /\ Done /\ Len(out.pool) >= 3 /\ out.selected # <<>>
    /\ req.mmr_lambda = 0
    /\ \E j \in 1..Len(out.pool) : out.pool[j][2] < out.selected_scores[1]

\* C9: in search_advanced the filtered candidates are used only when there
\* are at least max(top_k * 2, mmr_candidates) of them; with fewer the filter
\* is discarded and MMR runs over the unfiltered candidates.
KeptBy(allowed) == SelectSeq(out.hits, LAMBDA c : s_store[c[1]].section_id \in allowed)
ClaimThreshold == Max(req.top_k * 2, req.mmr_candidates)

C9_FallbackRule ==
    (Done /\ req.kind = "search_advanced") =>
      /\ Len(KeptBy(out.allowed)) < ClaimThreshold => out.pool = out.hits
      /\ out.pool # out.hits =>
            /\ out.pool = KeptBy(out.allowed)
            /\ Len(out.pool) >= ClaimThreshold

C9_Witness ==
    /\ Done /\ req.kind = "search_advanced" /\ out.allowed # {}
    /\ Len(KeptBy(out.allowed)) > 0
    /\ Len(KeptBy(out.allowed)) < ClaimThreshold
    /\ Len(KeptBy(out.allowed)) < Len(out.hits)
    /\ out.pool = out.hits /\ out.selected # <<>>

\* C10: with hierarchical mode on, a section index and a section store
\* present and the filter not discarded, every result belongs to one of the
\* top section_top_k sections for the query vector; with hierarchical mode
\* off or either section file missing, no filter is applied.
SectionRows == BuildRows(files[SStorePath].rows)
TopSectionIds ==
    {files[SStorePath].rows[i].id : i \in
        {i \in 1..Len(SectionRows) :
            Cardinality({j \in 1..Len(SectionRows) :
                            j # i /\ Better(SectionRows, out.q_vec, j, i)})
              < req.section_top_k}}
FilterActive ==
    req.use_hierarchical /\ IsFile(files, SIndexPath) /\ IsFile(files, SStorePath)

C10_ResultsInTopSections ==
    (Done /\ req.kind = "search_advanced") =>
      /\ (FilterActive /\ Len(KeptBy(TopSectionIds)) >= ClaimThreshold) =>
            \A j \in 1..Len(out.results) : out.results[j].section_id \in TopSectionIds
      /\ ~FilterActive => out.pool = out.hits /\ out.allowed = {}

C10_Witness ==
    /\ Done /\ req.kind = "search_advanced" /\ FilterActive
    /\ Len(KeptBy(TopSectionIds)) >= ClaimThreshold
    /\ Len(KeptBy(TopSectionIds)) < Len(out.hits)
    /\ out.results # <<>>

\* C11: the number of results requested from the chunk index is
\* min(max(top_k * 4, F), N) in search and min(max(top_k * 8, F), N) in
\* search_advanced, F = mmr_candidates being the same floor in both and N the
\* number of vectors in the index.
ClaimedK ==
    Min(Max(req.top_k * (IF req.kind = "search" THEN 4 ELSE 8), req.mmr_candidates),
        Len(vs.index.rows))

C11_RequestedCandidates == Done => Len(out.hits) = ClaimedK

\* C12: a search on a storage directory whose index was built with another
\* embedding model than the one configured now detects the mismatch and
\* fails with a dimension-mismatch error; it returns no results computed
\* against the stale index.
IndexIsStale ==
    /\ IsFile(files, IndexPath) /\ IsFile(files, MetaPath)
    /\ files[MetaPath].rows[1].embedding_model # EmbeddingModelName

C12_StaleIndexDetected ==
    (IndexIsStale /\ s_pc \in {"done", "failed"}) =>
        /\ out.error = "DimensionMismatchError"
        /\ out.results = <<>>

\* C13: search and search_advanced called when there is no chunk index file
\* (and the instance holds no handle) fail with the index-not-built error
\* before any embedding, index or store access; the handles of the instance
\* and all files stay as they were.
NoIndexFile == ~IsFile(files, IndexPath)

C13_NoIndexFailsFirst ==
    (NoIndexFile /\ s_pc # "idle") =>
        /\ s_pc \in {"failed", "repeated"}
        /\ out = [NoOutcome EXCEPT !.error = "FileNotFoundError"]
        /\ s_store = <<>>
        /\ vs = NewVectorStore
        /\ index_reads = 0
        /\ files \in {UnindexedFiles(chunks) : chunks \in DeployedChunks}

C13_Witness ==
    /\ NoIndexFile /\ s_pc = "failed" /\ req.kind = "search_advanced"
    /\ IsFile(files, SIndexPath) /\ IsFile(files, StorePath)
    /\ out.error = "FileNotFoundError" /\ vs = NewVectorStore

\* C14: build returns the number of chunk vectors it indexed, which is the
\* number of chunk records it read; when chunks.jsonl is absent it fails
\* with the missing-input error and writes or modifies no index, store or
\* metadata file.
C14_BuildCountOrMissingInput ==
    /\ ing.pc = "returned" =>
          /\ ing.ret = Len(ing.chunks)
          /\ ing.chunks = files[ChunksPath].rows
          /\ ing.ret = Len(files[IndexPath].rows)
    /\ (~IsFile(files, ChunksPath) /\ ing.pc \notin {"idle", "over"}) =>
          /\ ing.pc \in {"ingested", "failed"}
          /\ ing.pc = "failed" => ing.error = "FileNotFoundError"
          /\ \A f \in Artifacts : files[f] = snap[f]

C14_Witness ==
    /\ ~IsFile(files, ChunksPath) /\ ing.pc = "failed" /\ ing.error = "FileNotFoundError"
    /\ IsFile(files, IndexPath) /\ Len(files[IndexPath].rows) = 2
    /\ IsFile(files, MetaPath)

\* C15: with reranking enabled, when the reranker cannot be constructed or
\* its scoring raises, search and search_advanced return the MMR-selected
\* results in selection order and raise no error.
RerankFails ==
    \/ rr.mode \in {"no_model", "predict_raises"}
    \/ rr.mode = "bad_score" /\ rr.bad_at <= Len(out.selected)

ResultRows == [j \in 1..Len(out.results) |-> out.results[j].row]
ResultScores == [j \in 1..Len(out.results) |-> out.results[j].score]

C15_RerankFailureKeepsOrder ==
    (rr.enabled /\ RerankFails /\ out.selected # <<>>) =>
        /\ s_pc \in {"done", "repeated"}
        /\ out.error = None
        /\ ResultRows = out.selected
        /\ ResultScores = out.selected_scores

C15_Witness ==
    /\ s_pc = "done" /\ rr.enabled /\ rr.mode = "bad_score" /\ rr.bad_at = 2
    /\ Len(out.selected) = 2 /\ ResultRows = out.selected
    /\ out.results[1].rerank_score # <<>> /\ out.results[2].rerank_score = <<>>

\* C16: with reranking enabled and scoring successful, the returned list is
\* a permutation of the MMR-selected results, each with its score unchanged
\* and each carrying a rerank_score, in descending order of rerank_score,
\* equal rerank scores in selection order.
SelectedAt(row) == CHOOSE i \in 1..Len(out.selected) : out.selected[i] = row

C16_RerankSortsStably ==
    (rr.enabled /\ ~RerankFails /\ out.selected # <<>>) =>
        /\ Len(out.results) = Len(out.selected)
        /\ Range(ResultRows) = Range(out.selected)
        /\ \A j \in 1..Len(out.results) :
              /\ out.results[j].score = out.selected_scores[SelectedAt(out.results[j].row)]
              /\ out.results[j].text = s_store[out.results[j].row].text
              /\ out.results[j].rerank_score = <<rr.scores[out.results[j].text]>>
        /\ \A j, k \in 1..Len(out.results) :
              j < k =>
                \/ out.results[j].rerank_score[1] > out.results[k].rerank_score[1]
                \/ /\ out.results[j].rerank_score = out.results[k].rerank_score
                   /\ SelectedAt(out.results[j].row) < SelectedAt(out.results[k].row)

C16_Witness ==
    /\ s_pc = "done" /\ rr.enabled /\ rr.mode = "ok" /\ Len(out.results) = 2
    /\ ResultRows # out.selected
    /\ out.results[1].rerank_score[1] > out.results[2].rerank_score[1]

\* C17: within one server process the chunk index file is read at most
\* once; searches serving later requests reuse the handle the first
\* successful search loaded.
C17_IndexReadOnce == index_reads <= 1

\* C18: every query vector handed to the chunk index and to the section
\* index is the direct output of L2 normalisation, in search and in
\* search_advanced, also when HyDE text is given and the vector is the
\* average of two embeddings.
C18_QueryVectorIsNormalised ==
    Done => out.q_vec = NormalizeRow(out.q_vec)

\* C19: two searches with the same arguments on unchanged index and store
\* files return the same results in the same order; nothing an earlier
\* search left in the instance (the handles, the CrossEncoder) changes
\* candidate retrieval, filtering, selection or tie-breaking.
C19_RepeatedSearchSameResults ==
    s_pc = "repeated" =>
        /\ out.results = prev.results
        /\ out.error = prev.error
        /\ out.hits = prev.hits /\ out.pool = prev.pool
        /\ out.selected = prev.selected

C19_Witness ==
    /\ s_pc = "repeated" /\ req.kind = "search_advanced"
    /\ rr.enabled /\ rr.mode = "ok" /\ vs.reranker
    /\ out.allowed # {}
    /\ Len(out.results) = 2 /\ ResultRows # out.selected
    /\ out.results = prev.results

\* C20: every section build_sections produces and every chunk
\* chunk_sections produces has page_start <= page_end, whatever the pages
\* are: with or without headings, a heading on the first page, pages whose
\* heading is skipped as toc / index.
C20_PageRangesOrdered ==
    /\ \A j \in 1..Len(bs.sections) :
          /\ bs.sections[j].page_start <= bs.sections[j].page_end
          /\ 1 <= bs.sections[j].page_start
          /\ bs.sections[j].page_end <= Len(bs.pages)
    /\ \A j \in 1..Len(bs.chunks) : bs.chunks[j].page_start <= bs.chunks[j].page_end

C20_Witness ==
    /\ bs.pc = "chunked" /\ Len(bs.pages) = 3
    /\ bs.pages[1] = "heading" /\ bs.pages[2] = "toc" /\ bs.pages[3] = "numbered"
    /\ Len(bs.sections) = 2 /\ Len(bs.chunks) = 3
    /\ bs.sections[1].page_end = 2 /\ bs.sections[2].page_start = 3

\* C21: after a rebuild has completed, a search on an instance that already
\* held the index of the build before returns consistent pairs: no row lies
\* past the end of the store it read, and every record returned is the one
\* whose embedding is at its row of the index that was searched.
SearchedAfterBuild ==
    /\ s_pc = "repeated"
    /\ prev.error = None
    /\ ing.pc = "idle"
    /\ RowsAligned(IndexPath, StorePath)
    /\ files[MetaPath].rows[1].embeddings = Len(files[StorePath].rows)

C21_CachedIndexMatchesStore ==
    SearchedAfterBuild =>
      /\ out.error # "IndexError"
      /\ \A j \in 1..Len(out.results) :
            /\ out.results[j].row <= Len(vs.index.rows)
            /\ vs.index.rows[out.results[j].row]
                 = NormalizeRow(ModelEncodeOne(out.results[j].text))

\* C22: at every pick of the MMR loop, the first and the later ones, the
\* candidate chosen is the one listed first in the original candidate list
\* among the remaining candidates of maximum score; the candidates that
\* remain keep the order they were listed in.
RECURSIVE LoopAfter(_)
LoopAfter(j) ==
    IF j = 0 THEN MMRStart(out.pool, s_store)
    ELSE MMRStep(LoopAfter(j - 1), out.q_vec, req.mmr_lambda)

PickScores(j) ==
    LET st == LoopAfter(j - 1)
    IN  IF j = 1 THEN [p \in 1..Len(st.candidates) |-> st.candidates[p][2]]
        ELSE MMRScores(st, out.q_vec, req.mmr_lambda)

Remaining(j) ==
    SelectSeq([p \in 1..Len(out.pool) |-> out.pool[p][1]], LAMBDA row : row \notin Picked(j))

C22_TiesGoToFirstListed ==
    out.selected # <<>> =>
      \A j \in 1..Len(out.selected) :
         LET scores == PickScores(j)
         IN  /\ LoopAfter(j - 1).cand_idxs = Remaining(j)
             /\ \E p \in 1..Len(scores) :
                   /\ Remaining(j)[p] = out.selected[j]
                   /\ \A r \in 1..Len(scores) : scores[r] <= scores[p]
                   /\ \A r \in 1..(p - 1) : scores[r] < scores[p]

C22_Witness ==
    /\ s_pc = "done" /\ Len(out.selected) = 2
    /\ \A j \in 1..2 :
          \E r \in 1..Len(PickScores(j)) :
             /\ Remaining(j)[r] # out.selected[j]
             /\ \A p \in 1..Len(PickScores(j)) : PickScores(j)[p] <= PickScores(j)[r]

\* C23: with reranking disabled the results are in MMR selection order and
\* each carries the raw index score of its own row; candidates, cand_idxs
\* and cand_vecs stay aligned position by position through every deletion.
ListsAligned(st) ==
    /\ Len(st.candidates) = Len(st.cand_idxs)
    /\ Len(st.cand_vecs) = Len(st.cand_idxs)
    /\ \A p \in 1..Len(st.cand_idxs) :
          /\ st.candidates[p][1] = st.cand_idxs[p]
          /\ st.candidates[p][2] = Dot(vs.index.rows[st.cand_idxs[p]], out.q_vec)
          /\ st.cand_vecs[p] = RowVec(st.cand_idxs[p])

C23_ScoresFollowSelection ==
    (~rr.enabled /\ out.selected # <<>>) =>
      /\ ResultRows = out.selected
      /\ \A j \in 1..Len(out.results) :
            /\ out.results[j].score = Dot(vs.index.rows[out.selected[j]], out.q_vec)
            /\ out.results[j].text = s_store[out.selected[j]].text
      /\ \A j \in 0..Len(out.selected) : ListsAligned(LoopAfter(j))

C23_Witness ==
    /\ s_pc = "done" /\ ~rr.enabled /\ Len(out.results) = 2
    /\ Len(out.pool) > 2
    /\ out.results[1].score # out.results[2].score
    /\ out.pool[2][1] # out.selected[2]

\* C24: a search or search_advanced call that returns gives at most top_k
\* results, no store row twice, and only rows of the candidate pool the MMR
\* loop was handed; the index's "no result" row -1 is never among them.
Returned == s_pc \in {"done", "repeated"} /\ out.error = None

RunEndedReady ==
    /\ indexer.status = "ready"
    /\ indexer.progress = 100
    /\ IsFile(files, IndexPath)

C25_RunEndsReady ==
    \A c \in Calls :
       (t_pc[c] = "started" /\ ~IsFile(files, IndexPath))
          ~> (RunEndedReady \/ (t_pc[c] = "done" /\ indexer.last_error = "PDF not found"))

\* C26: every run started by start ends, with status "ready" or "error" and
\* ended_at set; what the run raises is caught in the thread and leaves
\* status "error" with the message in last_error; status is always one of
\* idle, indexing, ready, error and progress always within 0..100.
StatusOK ==
    /\ indexer.status \in {"idle", "indexing", "ready", "error"}
    /\ indexer.progress \in 0..100

RunEnds(c) ==
    (t_pc[c] = "indexing" /\ t_pc'[c] = "done") =>
        /\ indexer'.status \in {"ready", "error"}
        /\ indexer'.ended
        /\ indexer'.status = "error" => indexer'.last_error \in {"PDF not found", "TypeError"}

C26_RunEndsRecorded ==
    /\ []StatusOK
    /\ [][\A c \in Calls : RunEnds(c)]_vars
    /\ \A c \in Calls : (t_pc[c] = "started") ~> (t_pc[c] = "done")

C26_Witness ==
    \E c \in Calls :
       /\ t_pc[c] = "done" /\ indexer.thread = c
       /\ indexer.status = "error" /\ indexer.ended
       /\ indexer.last_error = "TypeError" /\ indexer.progress = 56

\* C27: when start finds the index file, it sets status "ready" and progress
\* 100, starts no thread and changes no file; status "ready" is only ever
\* there with an index file on disk.
StartFindsIndex(c) ==
    (t_pc[c] = "check_index" /\ t_pc'[c] # "check_index" /\ IsFile(files, IndexPath)) =>
        /\ indexer'.status = "ready"
        /\ indexer'.progress = 100
        /\ indexer'.thread = indexer.thread
        /\ t_pc'[c] = "done"
        /\ files' = files

C27_ExistingIndexMarkedReady ==
    /\ [](indexer.status = "ready" => IsFile(files, IndexPath))
    /\ [][\A c \in Calls : StartFindsIndex(c)]_vars

C27_Witness ==
    \E c \in Calls :
       /\ t_pc[c] = "done"
       /\ indexer.status = "ready" /\ indexer.progress = 100
       /\ indexer.thread = 0
       /\ IsFile(files, IndexPath)

====
